---- MODULE Spec2Model ----
(***************************************************************************)
(* BrainMath::IntMath (src/src/BrainMath/IntMath.hpp): mean, add_overflow, *)
(* sub_overflow, mul_overflow and sqrt over fixed-width integer types.     *)
(*                                                                         *)
(* The integer types are scaled down: a "narrow" type of NarrowBits bits   *)
(* stands for the types of lower rank than int (std::int8_t, std::uint8_t),*)
(* whose operands are promoted to int before every arithmetic operator, and*)
(* a type of IntBits bits stands for int itself and the wider types        *)
(* (std::int32_t, std::int64_t and their unsigned twins), whose arithmetic *)
(* is done in the type itself.  Each width comes signed and unsigned.      *)
(*                                                                         *)
(* A C++ expression is modelled by the set of values a build can give it:  *)
(* one value where the language defines the result, every value of the     *)
(* type where the behaviour is undefined (signed overflow, division by     *)
(* zero).                                                                  *)
(***************************************************************************)
EXTENDS Integers, FiniteSets

\* Width of the types that are promoted to int (stands for 8 bits).
NarrowBits == 2

\* Width of int and of the types that are not promoted (stands for 32/64 bits).
IntBits == 5

\* Half the width of the widest type sqrt is explored with.
SqrtHalfBits == 4

\* The value of the macro EDOM of <cerrno>.
EDOM == 33

\* The threads of the process; "main" is the caller of the single-threaded
\* specifications.
Threads == {"main", "other"}

VARIABLES
    T,                   \* the template argument T: [bits, signed]
    hasBuiltinOverflow,  \* whether the build has the __builtin_*_overflow intrinsics
    pc,                  \* "idle": no call in progress; "returned": fn has returned
    fn,                  \* the function last called
    useBuiltin,          \* the template argument useBuiltin of that call
    a,                   \* first argument of that call
    b,                   \* second argument of that call
    result,              \* the value returned (the first member of the pair)
    overflow,            \* the flag returned (the second member of the pair)
    errno,               \* errno of each thread (thread-local): 0 or EDOM
    fexcept,             \* each thread's floating-point environment: FE_INVALID raised
    frame                \* each thread's call of sqrt: its position, val, locals, value

vars == <<T, hasBuiltinOverflow, pc, fn, useBuiltin, a, b, result, overflow,
          errno, fexcept, frame>>

----------------------------------------------------------------------------
(* Integer types and the arithmetic of C++ on them. *)

RECURSIVE Pow2(_)
Pow2(n) == IF n = 0 THEN 1 ELSE 2 * Pow2(n - 1)

\* The instantiations Concepts::Integer admits, scaled down.
Types == [bits : {NarrowBits, IntBits}, signed : BOOLEAN]

\* The instantiations sqrt is explored with on its own: the even widths, as
\* those of the C++ integer types are, that are not promoted.
SqrtTypes ==
    [bits : {w \in {2 * k : k \in 1 .. SqrtHalfBits} : w >= IntBits},
     signed : BOOLEAN]

\* std::numeric_limits<T>::max()
TMax(t) == IF t.signed THEN Pow2(t.bits - 1) - 1 ELSE Pow2(t.bits) - 1

\* std::numeric_limits<T>::min()
TMin(t) == IF t.signed THEN -Pow2(t.bits - 1) ELSE 0

Range(t) == TMin(t) .. TMax(t)

InRange(t, v) == TMin(t) <= v /\ v <= TMax(t)

\* Conversion of an integer to type t: the value modulo 2^bits (two's
\* complement for a signed t).
Wrap(t, v) ==
    LET m == v % Pow2(t.bits)
    IN  IF t.signed /\ m > TMax(t) THEN m - Pow2(t.bits) ELSE m

\* The type int.
IntT == [bits |-> IntBits, signed |-> TRUE]

\* The type an arithmetic operator on two operands of type t is evaluated in:
\* a type narrower than int is promoted to int, which holds all its values.
Promote(t) == IF t.bits < IntBits THEN IntT ELSE t

\* The values a build can give an arithmetic expression of type e whose exact
\* value is v: v when it is representable, the value modulo 2^bits for an
\* unsigned type, and any value at all for a signed type (undefined behaviour).
Arith(e, v) ==
    IF InRange(e, v) THEN {v}
    ELSE IF e.signed THEN Range(e)
    ELSE {Wrap(e, v)}

\* x / y of C++ for y # 0: the quotient truncated toward zero.
CDiv(x, y) ==
    LET ax == IF x < 0 THEN -x ELSE x
        ay == IF y < 0 THEN -y ELSE y
    IN  IF (x < 0) = (y < 0) THEN ax \div ay ELSE -(ax \div ay)

\* The values a build can give x / y evaluated in type e: division by zero is
\* undefined, and so is a quotient that is not representable (min / -1).
EvalDiv(e, x, y) ==
    IF y = 0 THEN Range(e) ELSE Arith(e, CDiv(x, y))

\* x & y on the n-bit two's complement representations, as a non-negative
\* number below 2^n.
RECURSIVE AndBits(_, _, _)
AndBits(u, v, n) ==
    IF n = 0 THEN 0
    ELSE (u % 2) * (v % 2) + 2 * AndBits(u \div 2, v \div 2, n - 1)

BitAnd(e, x, y) ==
    Wrap(e, AndBits(x % Pow2(e.bits), y % Pow2(e.bits), e.bits))

\* std::min
Min2(x, y) == IF x <= y THEN x ELSE y

Max2(x, y) == IF x <= y THEN y ELSE x

\* std::numeric_limits<T>::digits: the bits of the value, without the sign.
Digits(t) == IF t.signed THEN t.bits - 1 ELSE t.bits

\* x >> n for a non-negative x.
ShiftRight(x, n) == x \div Pow2(n)

----------------------------------------------------------------------------
(* mean *)

\* A sum of halves that halves the first operand only.
mean_halves_FirstOnly(x, y) == CDiv(x, 2) + y

\* (a / 2) + (b / 2), as an exact number.
mean_halves(x, y) == CDiv(x, 2) + CDiv(y, 2)

\* a & b & 1
mean_odd(t, x, y) == BitAnd(Promote(t), BitAnd(Promote(t), x, y), 1)

\* A mean that forgets the correction for two odd operands.
mean_NoCorrection(t, x, y) ==
    LET e == Promote(t)
    IN  {Wrap(t, s) : s \in Arith(e, CDiv(x, 2) + CDiv(y, 2))}

\* A mean whose correction looks at the first operand only.
mean_FirstOddOnly(t, x, y) ==
    LET e == Promote(t)
        halves == Arith(e, CDiv(x, 2) + CDiv(y, 2))
        odd == BitAnd(e, x, 1)
    IN  {Wrap(t, s) : s \in UNION {Arith(e, h + odd) : h \in halves}}

\* return (a / 2) + (b / 2) + (a & b & 1);
mean(t, x, y) ==
    LET e == Promote(t)
        halves == Arith(e, mean_halves(x, y))
        odd == mean_odd(t, x, y)
    IN  {Wrap(t, s) : s \in UNION {Arith(e, h + odd) : h \in halves}}

----------------------------------------------------------------------------
(* add_overflow *)

\* overflow = __builtin_add_overflow(a, b, &result): the exact sum converted
\* to T, and whether the conversion changed it.
add_overflow_builtin(t, x, y) ==
    {[first |-> Wrap(t, x + y), second |-> ~InRange(t, x + y)]}

\* result = a + b;
add_overflow_result(t, x, y) ==
    {Wrap(t, r) : r \in Arith(Promote(t), x + y)}

\* An overflow test that forgets the negative side of a signed type.
add_overflow_check_PositiveOnly(t, x, y) ==
    LET e == Promote(t)
    IN  IF y > 0 \/ ~t.signed
        THEN {x > m : m \in Arith(e, TMax(t) - y)}
        ELSE {FALSE}

\* signed:   overflow = (b > 0 && a > max - b) || (b < 0 && a < min - b);
\* unsigned: overflow = a > max - b;
add_overflow_check(t, x, y) ==
    LET e == Promote(t)
    IN  IF t.signed
        THEN IF y > 0 THEN {x > m : m \in Arith(e, TMax(t) - y)}
             ELSE IF y < 0 THEN {x < m : m \in Arith(e, TMin(t) - y)}
             ELSE {FALSE}
        ELSE {x > m : m \in Arith(e, TMax(t) - y)}

\* A test that evaluates both limits whatever the sign of b.
add_overflow_prediction_NoSignTest(t, x, y) ==
    IF t.signed
    THEN {[lhs |-> x, less |-> FALSE, value |-> TMax(t) - y],
          [lhs |-> x, less |-> TRUE, value |-> TMin(t) - y]}
    ELSE {[lhs |-> x, less |-> FALSE, value |-> TMax(t) - y]}

\* The limit the overflow test of add_overflow evaluates for a and b, if any:
\* max - b or min - b as an exact number, and the comparison lhs < value
\* (less) or lhs > value it is in. b > 0 && ... and b < 0 && ... evaluate
\* their right operand only when the left one holds.
add_overflow_prediction(t, x, y) ==
    IF t.signed
    THEN IF y > 0 THEN {[lhs |-> x, less |-> FALSE, value |-> TMax(t) - y]}
         ELSE IF y < 0 THEN {[lhs |-> x, less |-> TRUE, value |-> TMin(t) - y]}
         ELSE {}
    ELSE {[lhs |-> x, less |-> FALSE, value |-> TMax(t) - y]}

\* The flags the comparison of limit p can give, the limit being evaluated in
\* type e.
overflow_compare(e, p) ==
    {IF p.less THEN p.lhs < m ELSE p.lhs > m : m \in Arith(e, p.value)}

\* add_overflow<T, useBuiltin>(a, b): the pairs the call can return.
add_overflow(t, ub, x, y) ==
    IF hasBuiltinOverflow /\ ub
    THEN add_overflow_builtin(t, x, y)
    ELSE {[first |-> r, second |-> o] :
             r \in add_overflow_result(t, x, y), o \in add_overflow_check(t, x, y)}

----------------------------------------------------------------------------
(* sub_overflow *)

\* overflow = __builtin_sub_overflow(a, b, &result)
sub_overflow_builtin(t, x, y) ==
    {[first |-> Wrap(t, x - y), second |-> ~InRange(t, x - y)]}

\* result = a - b;
sub_overflow_result(t, x, y) ==
    {Wrap(t, r) : r \in Arith(Promote(t), x - y)}

\* An overflow test whose unsigned comparison admits equality.
sub_overflow_check_OrEqual(t, x, y) ==
    LET e == Promote(t)
    IN  IF t.signed
        THEN IF y < 0 THEN {x > m : m \in Arith(e, TMax(t) + y)}
             ELSE IF y > 0 THEN {x < m : m \in Arith(e, TMin(t) + y)}
             ELSE {FALSE}
        ELSE {x <= y}

\* signed:   overflow = (b < 0 && a > max + b) || (b > 0 && a < min + b);
\* unsigned: overflow = a < b;
sub_overflow_check(t, x, y) ==
    LET e == Promote(t)
    IN  IF t.signed
        THEN IF y < 0 THEN {x > m : m \in Arith(e, TMax(t) + y)}
             ELSE IF y > 0 THEN {x < m : m \in Arith(e, TMin(t) + y)}
             ELSE {FALSE}
        ELSE {x < y}

\* The limit the overflow test of sub_overflow evaluates for a and b, if any:
\* max + b or min + b as an exact number; none for an unsigned type (a < b).
sub_overflow_prediction(t, x, y) ==
    IF t.signed
    THEN IF y < 0 THEN {[lhs |-> x, less |-> FALSE, value |-> TMax(t) + y]}
         ELSE IF y > 0 THEN {[lhs |-> x, less |-> TRUE, value |-> TMin(t) + y]}
         ELSE {}
    ELSE {}

\* sub_overflow<T, useBuiltin>(a, b): the pairs the call can return.
sub_overflow(t, ub, x, y) ==
    IF hasBuiltinOverflow /\ ub
    THEN sub_overflow_builtin(t, x, y)
    ELSE {[first |-> r, second |-> o] :
             r \in sub_overflow_result(t, x, y), o \in sub_overflow_check(t, x, y)}

----------------------------------------------------------------------------
(* mul_overflow *)

\* overflow = __builtin_mul_overflow(a, b, &result)
mul_overflow_builtin(t, x, y) ==
    {[first |-> Wrap(t, x * y), second |-> ~InRange(t, x * y)]}

\* result = a * b;
mul_overflow_result(t, x, y) ==
    {Wrap(t, r) : r \in Arith(Promote(t), x * y)}

\* An overflow test that compares the wrong way round when both operands are
\* negative.
mul_overflow_check_WrongSide(t, x, y) ==
    LET e == Promote(t)
    IN  IF t.signed
        THEN IF x = 0 \/ y = 0 THEN {FALSE}
             ELSE IF x = -1 \/ y = -1
                  THEN {(x = -1 /\ y = TMin(t)) \/ (y = -1 /\ x = TMin(t))}
             ELSE IF x < 0 /\ y < 0 THEN {x > q : q \in EvalDiv(e, TMax(t), y)}
             ELSE IF x < 0 THEN {x < q : q \in EvalDiv(e, TMin(t), y)}
             ELSE IF y < 0 THEN {y < q : q \in EvalDiv(e, TMin(t), x)}
             ELSE {x > q : q \in EvalDiv(e, TMax(t), y)}
        ELSE IF x # 0 /\ y # 0
             THEN {x > q : q \in EvalDiv(e, TMax(t), y)}
             ELSE {FALSE}

\* signed:   the case split on a zero operand, an operand of -1, both operands
\*           negative, a negative, b negative, both positive;
\* unsigned: overflow = (a != 0 && b != 0) && (a > max / b);
mul_overflow_check(t, x, y) ==
    LET e == Promote(t)
    IN  IF t.signed
        THEN IF x = 0 \/ y = 0 THEN {FALSE}
             ELSE IF x = -1 \/ y = -1
                  THEN {(x = -1 /\ y = TMin(t)) \/ (y = -1 /\ x = TMin(t))}
             ELSE IF x < 0 /\ y < 0 THEN {x < q : q \in EvalDiv(e, TMax(t), y)}
             ELSE IF x < 0 THEN {x < q : q \in EvalDiv(e, TMin(t), y)}
             ELSE IF y < 0 THEN {y < q : q \in EvalDiv(e, TMin(t), x)}
             ELSE {x > q : q \in EvalDiv(e, TMax(t), y)}
        ELSE IF x # 0 /\ y # 0
             THEN {x > q : q \in EvalDiv(e, TMax(t), y)}
             ELSE {FALSE}

\* A case split without the test for a zero operand.
mul_overflow_division_NoZeroTest(t, x, y) ==
    IF t.signed
    THEN IF x = -1 \/ y = -1 THEN {}
         ELSE IF x < 0 /\ y < 0 THEN {[lhs |-> x, less |-> TRUE, num |-> TMax(t), den |-> y]}
         ELSE IF x < 0 THEN {[lhs |-> x, less |-> TRUE, num |-> TMin(t), den |-> y]}
         ELSE IF y < 0 THEN {[lhs |-> y, less |-> TRUE, num |-> TMin(t), den |-> x]}
         ELSE {[lhs |-> x, less |-> FALSE, num |-> TMax(t), den |-> y]}
    ELSE {[lhs |-> x, less |-> FALSE, num |-> TMax(t), den |-> y]}

\* The division the overflow test of mul_overflow evaluates for a and b, if
\* any: the comparison lhs < num / den (less) or lhs > num / den it is in.
\* The operands of && and || after the deciding one are not evaluated.
mul_overflow_division(t, x, y) ==
    IF t.signed
    THEN IF x = 0 \/ y = 0 THEN {}
         ELSE IF x = -1 \/ y = -1 THEN {}
         ELSE IF x < 0 /\ y < 0 THEN {[lhs |-> x, less |-> TRUE, num |-> TMax(t), den |-> y]}
         ELSE IF x < 0 THEN {[lhs |-> x, less |-> TRUE, num |-> TMin(t), den |-> y]}
         ELSE IF y < 0 THEN {[lhs |-> y, less |-> TRUE, num |-> TMin(t), den |-> x]}
         ELSE {[lhs |-> x, less |-> FALSE, num |-> TMax(t), den |-> y]}
    ELSE IF x # 0 /\ y # 0
         THEN {[lhs |-> x, less |-> FALSE, num |-> TMax(t), den |-> y]}
         ELSE {}

\* The flags the comparison of division d can give, the quotient being
\* evaluated in type e.
mul_overflow_compare(e, d) ==
    {IF d.less THEN d.lhs < q ELSE d.lhs > q : q \in EvalDiv(e, d.num, d.den)}

\* mul_overflow<T, useBuiltin>(a, b): the pairs the call can return.
mul_overflow(t, ub, x, y) ==
    IF hasBuiltinOverflow /\ ub
    THEN mul_overflow_builtin(t, x, y)
    ELSE {[first |-> r, second |-> o] :
             r \in mul_overflow_result(t, x, y), o \in mul_overflow_check(t, x, y)}

----------------------------------------------------------------------------
(* sqrt *)

\* A bound that forgets the + 1.
max_right_NoPlusOne(t) ==
    {Wrap(t, m) : m \in Arith(Promote(t), ShiftRight(TMax(t), Digits(t) \div 2))}

\* constexpr T max_right = (max() >> (digits / 2)) + 1;
max_right(t) ==
    {Wrap(t, m) : m \in Arith(Promote(t), ShiftRight(TMax(t), Digits(t) \div 2) + 1)}

\* A domain test that takes zero for a negative value.
sqrt_domain_error_OrZero(v) == v <= 0

\* if (val < zero)
sqrt_domain_error(v) == v < 0

\* errno = EDOM written to one variable shared by all the threads.
set_errno_Global(en, th) == [t \in DOMAIN en |-> EDOM]

\* A domain error that leaves errno alone.
set_errno_Forgotten(en, th) == en

\* errno = EDOM; errno is the calling thread's own.
set_errno(en, th) == [en EXCEPT ![th] = EDOM]

\* std::feraiseexcept(FE_INVALID); the floating-point environment is the
\* calling thread's own.
raise_invalid(fe, th) == [fe EXCEPT ![th] = TRUE]

\* A first bound that is not capped by max_right.
sqrt_right_NoCap(t, v) ==
    {Wrap(t, q) : q \in EvalDiv(Promote(t), v, 2)}

\* T right = val / two; right = std::min(right, max_right);
sqrt_right(t, v) ==
    {Min2(Wrap(t, q), m) : q \in EvalDiv(Promote(t), v, 2), m \in max_right(t)}

\* middle = (left + right) / two;
sqrt_middle(t, l, r) ==
    {Wrap(t, CDiv(s, 2)) : s \in Arith(Promote(t), l + r)}

\* A narrowing that moves left where it has to move right.
sqrt_narrow_Swapped(t, v, l, r, m, s) ==
    LET above == s.second \/ s.first > v
        below == ~above /\ s.first < v
        nl == IF above THEN m ELSE l
        nr == IF below THEN m ELSE r
    IN  IF ~above /\ ~below
        THEN {[left |-> l, right |-> r, middle |-> m, square |-> s,
               done |-> TRUE, ret |-> m]}
        ELSE {[left |-> nl, right |-> nr, middle |-> m, square |-> s,
               done |-> d < 2, ret |-> IF d < 2 THEN nl ELSE 0] :
                 d \in Arith(Promote(t), nr - nl)}

\* A loop that leaves only when the bounds meet.
sqrt_narrow_ExitLate(t, v, l, r, m, s) ==
    LET above == s.second \/ s.first > v
        below == ~above /\ s.first < v
        nl == IF below THEN m ELSE l
        nr == IF above THEN m ELSE r
    IN  IF ~above /\ ~below
        THEN {[left |-> l, right |-> r, middle |-> m, square |-> s,
               done |-> TRUE, ret |-> m]}
        ELSE {[left |-> nl, right |-> nr, middle |-> m, square |-> s,
               done |-> d < 1, ret |-> IF d < 1 THEN nl ELSE 0] :
                 d \in Arith(Promote(t), nr - nl)}

\* The rest of the loop body once middle m and its checked square s are known:
\*   if (square.second || (square.first > val)) right = middle;
\*   else if (square.first < val) left = middle;
\*   else if (square.first == val) return middle;
\*   if (right - left < two) return left;
\* The locals after the iteration, whether sqrt returns, and the value returned.
sqrt_narrow(t, v, l, r, m, s) ==
    LET above == s.second \/ s.first > v
        below == ~above /\ s.first < v
        nl == IF below THEN m ELSE l
        nr == IF above THEN m ELSE r
    IN  IF ~above /\ ~below
        THEN {[left |-> l, right |-> r, middle |-> m, square |-> s,
               done |-> TRUE, ret |-> m]}
        ELSE {[left |-> nl, right |-> nr, middle |-> m, square |-> s,
               done |-> d < 2, ret |-> IF d < 2 THEN nl ELSE 0] :
                 d \in Arith(Promote(t), nr - nl)}

\* One iteration of while (true) { ... }, with
\* square = mul_overflow(middle, middle) taking the default useBuiltin.
sqrt_body(t, v, l, r) ==
    UNION {UNION {sqrt_narrow(t, v, l, r, m, s) :
                     s \in mul_overflow(t, hasBuiltinOverflow, m, m)} :
             m \in sqrt_middle(t, l, r)}

\* The frame of a thread that is not inside sqrt.
NoFrame ==
    [pc |-> "idle", val |-> 0, left |-> 0, right |-> 0, middle |-> 0,
     square |-> [first |-> 0, second |-> FALSE], ret |-> 0, iterations |-> 0]

----------------------------------------------------------------------------
(* The caller: one instantiation, any sequence of calls. *)

\* No call made yet, errno and the floating-point flags clear in every thread.
NoCall ==
    /\ hasBuiltinOverflow \in BOOLEAN
    /\ pc = "idle"
    /\ fn = "none"
    /\ useBuiltin = FALSE
    /\ a = 0
    /\ b = 0
    /\ result = 0
    /\ overflow = FALSE
    /\ errno = [th \in Threads |-> 0]
    /\ fexcept = [th \in Threads |-> FALSE]
    /\ frame = [th \in Threads |-> NoFrame]

Init ==
    /\ T \in Types
    /\ NoCall

\* mean(x, y) is called and returns.
Call_mean ==
    /\ pc = "idle"
    /\ frame["main"].pc = "idle"
    /\ \E x \in Range(T), y \in Range(T) :
         \E r \in mean(T, x, y) :
            /\ a' = x
            /\ b' = y
            /\ result' = r
    /\ pc' = "returned"
    /\ fn' = "mean"
    /\ useBuiltin' = FALSE
    /\ overflow' = FALSE
    /\ UNCHANGED <<T, hasBuiltinOverflow, errno, fexcept, frame>>

\* add_overflow<T, ub>(x, y) is called and returns.
Call_add_overflow ==
    /\ pc = "idle"
    /\ frame["main"].pc = "idle"
    /\ \E ub \in BOOLEAN, x \in Range(T), y \in Range(T) :
         \E r \in add_overflow(T, ub, x, y) :
            /\ useBuiltin' = ub
            /\ a' = x
            /\ b' = y
            /\ result' = r.first
            /\ overflow' = r.second
    /\ pc' = "returned"
    /\ fn' = "add_overflow"
    /\ UNCHANGED <<T, hasBuiltinOverflow, errno, fexcept, frame>>

\* sub_overflow<T, ub>(x, y) is called and returns.
Call_sub_overflow ==
    /\ pc = "idle"
    /\ frame["main"].pc = "idle"
    /\ \E ub \in BOOLEAN, x \in Range(T), y \in Range(T) :
         \E r \in sub_overflow(T, ub, x, y) :
            /\ useBuiltin' = ub
            /\ a' = x
            /\ b' = y
            /\ result' = r.first
            /\ overflow' = r.second
    /\ pc' = "returned"
    /\ fn' = "sub_overflow"
    /\ UNCHANGED <<T, hasBuiltinOverflow, errno, fexcept, frame>>

\* mul_overflow<T, ub>(x, y) is called and returns.
Call_mul_overflow ==
    /\ pc = "idle"
    /\ frame["main"].pc = "idle"
    /\ \E ub \in BOOLEAN, x \in Range(T), y \in Range(T) :
         \E r \in mul_overflow(T, ub, x, y) :
            /\ useBuiltin' = ub
            /\ a' = x
            /\ b' = y
            /\ result' = r.first
            /\ overflow' = r.second
    /\ pc' = "returned"
    /\ fn' = "mul_overflow"
    /\ UNCHANGED <<T, hasBuiltinOverflow, errno, fexcept, frame>>

\* The caller is done with the returned value and may call again.
Discard ==
    /\ pc = "returned"
    /\ pc' = "idle"
    /\ fn' = "none"
    /\ useBuiltin' = FALSE
    /\ a' = 0
    /\ b' = 0
    /\ result' = 0
    /\ overflow' = FALSE
    /\ UNCHANGED <<T, hasBuiltinOverflow, errno, fexcept, frame>>

\* What every step of sqrt leaves alone.
SqrtFrame == UNCHANGED <<T, hasBuiltinOverflow, pc, fn, useBuiltin, a, b, result, overflow>>

\* Thread th calls sqrt(v) and runs up to its first side effect, its return or
\* the loop:
\*   if (val < zero) ... else if (val == zero) return zero;
\*   else if (val < T{4}) return 1;
\*   T left = two; T right = val / two; right = std::min(right, max_right);
Sqrt_Call(th) ==
    /\ pc = "idle"
    /\ frame[th].pc = "idle"
    /\ \E v \in Range(T) :
         IF sqrt_domain_error(v)
         THEN frame' = [frame EXCEPT ![th] = [NoFrame EXCEPT !.pc = "errno", !.val = v]]
         ELSE IF v = 0
         THEN frame' = [frame EXCEPT ![th] =
                          [NoFrame EXCEPT !.pc = "returned", !.val = v, !.ret = 0]]
         ELSE IF v < 4
         THEN frame' = [frame EXCEPT ![th] =
                          [NoFrame EXCEPT !.pc = "returned", !.val = v, !.ret = Wrap(T, 1)]]
         ELSE \E r \in sqrt_right(T, v) :
                 frame' = [frame EXCEPT ![th] =
                             [NoFrame EXCEPT !.pc = "loop", !.val = v,
                                             !.left = 2, !.right = r]]
    /\ UNCHANGED <<errno, fexcept>>
    /\ SqrtFrame

\* errno = EDOM;
Sqrt_SetErrno(th) ==
    /\ frame[th].pc = "errno"
    /\ errno' = set_errno(errno, th)
    /\ frame' = [frame EXCEPT ![th].pc = "raise"]
    /\ UNCHANGED fexcept
    /\ SqrtFrame

\* std::feraiseexcept(FE_INVALID); return -1;
Sqrt_Raise(th) ==
    /\ frame[th].pc = "raise"
    /\ fexcept' = raise_invalid(fexcept, th)
    /\ frame' = [frame EXCEPT ![th].pc = "returned", ![th].ret = Wrap(T, -1)]
    /\ UNCHANGED errno
    /\ SqrtFrame

\* One iteration of the loop, up to the next iteration or the return.
Sqrt_Iterate(th) ==
    /\ frame[th].pc = "loop"
    /\ \E n \in sqrt_body(T, frame[th].val, frame[th].left, frame[th].right) :
         frame' = [frame EXCEPT ![th] =
                     [pc |-> IF n.done THEN "returned" ELSE "loop",
                      val |-> frame[th].val,
                      left |-> n.left,
                      right |-> n.right,
                      middle |-> n.middle,
                      square |-> n.square,
                      ret |-> n.ret,
                      iterations |-> frame[th].iterations + 1]]
    /\ UNCHANGED <<errno, fexcept>>
    /\ SqrtFrame

\* The caller in thread th is done with the value sqrt returned.
Sqrt_Discard(th) ==
    /\ frame[th].pc = "returned"
    /\ frame' = [frame EXCEPT ![th] = NoFrame]
    /\ UNCHANGED <<errno, fexcept>>
    /\ SqrtFrame

\* The caller in thread th clears its indicators between two calls:
\*   errno = 0; std::feclearexcept(FE_ALL_EXCEPT);
Clear(th) ==
    /\ pc = "idle"
    /\ frame[th].pc = "idle"
    /\ errno[th] # 0 \/ fexcept[th]
    /\ errno' = [errno EXCEPT ![th] = 0]
    /\ fexcept' = [fexcept EXCEPT ![th] = FALSE]
    /\ UNCHANGED frame
    /\ SqrtFrame

\* The steps of sqrt and of its caller in thread th.
Sqrt(th) ==
    \/ Sqrt_Call(th)
    \/ Sqrt_SetErrno(th)
    \/ Sqrt_Raise(th)
    \/ Sqrt_Iterate(th)
    \/ Sqrt_Discard(th)
    \/ Clear(th)

Next ==
    \/ Call_mean
    \/ Call_add_overflow
    \/ Call_sub_overflow
    \/ Call_mul_overflow
    \/ Discard
    \/ Sqrt("main")

\* One thread, every function, the small types.
Spec == Init /\ [][Next]_vars

InitSqrt ==
    /\ T \in SqrtTypes
    /\ NoCall

NextSqrt == Sqrt("main")

\* One thread, sqrt alone, the wider types of even width.
SpecSqrt == InitSqrt /\ [][NextSqrt]_vars

InitThreads ==
    /\ T \in {t \in Types : t.signed}
    /\ NoCall

NextThreads == \E th \in Threads : Sqrt(th)

\* Every thread calls sqrt, in any interleaving; the signed small types.
SpecThreads == InitThreads /\ [][NextThreads]_vars

----------------------------------------------------------------------------
(* What a returned call is. *)

Returned(f) == pc = "returned" /\ fn = f

\* The call took the manual path (no intrinsic in the build, or not asked for).
Manual == ~(hasBuiltinOverflow /\ useBuiltin)

\* The exact mathematical result of the operation a call of f computes.
Exact(f, x, y) ==
    CASE f = "add_overflow" -> x + y
      [] f = "sub_overflow" -> x - y
      [] f = "mul_overflow" -> x * y

\* The pair a call returned.
ReturnedPair == [first |-> result, second |-> overflow]

Checked == {"add_overflow", "sub_overflow", "mul_overflow"}

----------------------------------------------------------------------------
(* mean: C1 to C4 *)

\* C1: for every integer type and every a, b, mean(a, b) is
\* floor((a + b) / 2), the sum being the exact one.
C1_MeanIsFloor ==
    Returned("mean") => result = (a + b) \div 2

\* C2: for every integer type and every a, b, mean(a, b) lies between the
\* operands: min(a, b) <= mean(a, b) <= max(a, b).
C2_MeanBetween ==
    Returned("mean") => Min2(a, b) <= result /\ result <= Max2(a, b)

\* The rows {a, b, expected} of the table the claim gives for the extremes.
MeanExtremes(t) ==
    { <<TMax(t), TMax(t), TMax(t)>>,
      <<TMin(t), TMin(t), TMin(t)>>,
      <<0, TMax(t), CDiv(TMax(t), 2)>>,
      <<1, TMax(t), CDiv(TMax(t), 2) + 1>>,
      <<0, TMin(t), CDiv(TMin(t), 2)>>,
      <<1, TMin(t), CDiv(TMin(t), 2)>> }

\* C3: at the extremes of the type mean gives mean(max, max) = max,
\* mean(min, min) = min, mean(0, max) = max/2, mean(1, max) = max/2 + 1,
\* mean(0, min) = min/2 and mean(1, min) = min/2, in either argument order.
C3_MeanAtExtremes ==
    Returned("mean") =>
        \A c \in MeanExtremes(T) :
            ((a = c[1] /\ b = c[2]) \/ (a = c[2] /\ b = c[1])) => result = c[3]

\* mean(max, 1) of the signed type of int's width has returned max/2 + 1.
C3_Witness ==
    /\ Returned("mean")
    /\ T = IntT
    /\ a = TMax(T)
    /\ b = 1
    /\ result = CDiv(TMax(T), 2) + 1

\* C4: mean is commutative: whatever mean(b, a) can return is what
\* mean(a, b) returned.
C4_MeanCommutative ==
    Returned("mean") => \A r \in mean(T, b, a) : r = result

\* mean of an odd and an even operand, both negative, has returned.
C4_Witness ==
    /\ Returned("mean")
    /\ T.signed
    /\ a = -1
    /\ b = TMin(T)
    /\ result = CDiv(TMin(T), 2)

----------------------------------------------------------------------------
(* The overflow flag of the manual paths: C5 to C7 *)

\* C5: the manual path of add_overflow reports overflow if and only if the
\* exact sum a + b lies outside [min(T), max(T)].
C5_AddFlagExact ==
    (Returned("add_overflow") /\ Manual) => (overflow <=> ~InRange(T, a + b))

\* The manual add_overflow has reported the overflow of min + (-1).
C5_Witness ==
    /\ Returned("add_overflow")
    /\ ~useBuiltin
    /\ T.signed
    /\ a = TMin(T)
    /\ b = -1
    /\ overflow

\* C6: the manual path of sub_overflow reports overflow if and only if the
\* exact difference a - b lies outside [min(T), max(T)].
C6_SubFlagExact ==
    (Returned("sub_overflow") /\ Manual) => (overflow <=> ~InRange(T, a - b))

\* The manual sub_overflow has found a - a of an unsigned type in range, and
\* the one of max - (-1) of a signed type out of range.
C6_Witness ==
    /\ Returned("sub_overflow")
    /\ ~useBuiltin
    /\ \/ ~T.signed /\ a = TMax(T) /\ b = TMax(T) /\ ~overflow
       \/ T.signed /\ a = TMax(T) /\ b = -1 /\ overflow

\* C7: the manual path of mul_overflow reports overflow if and only if the
\* exact product a * b lies outside [min(T), max(T)]: never with a zero
\* operand, and with an operand of -1 exactly when the other is min(T).
C7_MulFlagExact ==
    (Returned("mul_overflow") /\ Manual) =>
        /\ overflow <=> ~InRange(T, a * b)
        /\ (a = 0 \/ b = 0) => ~overflow
        /\ (T.signed /\ a = -1) => (overflow <=> b = TMin(T))
        /\ (T.signed /\ b = -1) => (overflow <=> a = TMin(T))

\* The manual mul_overflow has reported the overflow of min * (-1).
C7_Witness ==
    /\ Returned("mul_overflow")
    /\ ~useBuiltin
    /\ T.signed
    /\ a = TMin(T)
    /\ b = -1
    /\ overflow

----------------------------------------------------------------------------
(* The value returned by the checked operators: C8 to C10 *)

\* C8: add_overflow, sub_overflow and mul_overflow return the exact result
\* reduced modulo 2^bitwidth into the range of T, whether or not they report
\* overflow.
C8_ValueIsWrapped ==
    (pc = "returned" /\ fn \in Checked) => result = Wrap(T, Exact(fn, a, b))

\* C9: the manual path returns the very pair the intrinsic returns: the exact
\* result wrapped into T, and the exact out-of-range flag.
C9_ManualEqualsBuiltin ==
    (pc = "returned" /\ fn \in Checked /\ Manual) =>
        ReturnedPair =
            [first |-> Wrap(T, Exact(fn, a, b)),
             second |-> ~InRange(T, Exact(fn, a, b))]

\* C10: on the manual path add_overflow and mul_overflow are commutative in
\* both components: whatever the call with the arguments swapped can return
\* is the pair this call returned.
C10_AddMulCommutative ==
    /\ (Returned("add_overflow") /\ Manual) =>
           \A r \in add_overflow(T, useBuiltin, b, a) : r = ReturnedPair
    /\ (Returned("mul_overflow") /\ Manual) =>
           \A r \in mul_overflow(T, useBuiltin, b, a) : r = ReturnedPair

----------------------------------------------------------------------------
(* sqrt: C11 to C15 *)

\* The call of sqrt in the single-threaded specifications.
Main == frame["main"]

\* C11: for every non-negative val, 0, 1, 2, 3 and max(T) included, sqrt
\* returns the r >= 0 with r * r <= val < (r + 1) * (r + 1), the products
\* being exact.
C11_SqrtIsFloorRoot ==
    (Main.pc = "returned" /\ Main.val >= 0) =>
        /\ Main.ret >= 0
        /\ Main.ret * Main.ret <= Main.val
        /\ Main.val < (Main.ret + 1) * (Main.ret + 1)

\* sqrt(max(T)) of the widest signed type has returned from its loop.
C11_Witness ==
    /\ Main.pc = "returned"
    /\ T = [bits |-> 2 * SqrtHalfBits, signed |-> TRUE]
    /\ Main.val = TMax(T)
    /\ Main.iterations > 1
    /\ Main.ret * Main.ret <= TMax(T)

\* C12: for a signed type and val < 0, sqrt returns -1 with errno set to EDOM
\* and FE_INVALID raised, without entering the loop; a call with val < 0 is
\* only ever at the two side effects or returned.
C12_NegativeIsDomainError ==
    (Main.pc # "idle" /\ Main.val < 0) =>
        /\ T.signed
        /\ Main.pc \in {"errno", "raise", "returned"}
        /\ Main.iterations = 0
        /\ Main.pc = "returned" =>
              /\ Main.ret = -1
              /\ errno["main"] = EDOM
              /\ fexcept["main"]

\* sqrt(min(T)) has returned -1 with both indicators set.
C12_Witness ==
    /\ Main.pc = "returned"
    /\ Main.val = TMin(T)
    /\ Main.val < 0
    /\ Main.ret = -1
    /\ errno["main"] = EDOM
    /\ fexcept["main"]

\* Thread th is at one of the two side effects of a call with val < 0.
InDomainError(th) == frame[th].pc \in {"errno", "raise"} /\ frame[th].val < 0

\* A step changes what thread th observes of errno or of FE_INVALID.
IndicatorChanges(th) ==
    errno'[th] # errno[th] \/ fexcept'[th] # fexcept[th]

\* A step in which thread th itself resets both of its indicators.
ClearedBy(th) ==
    /\ frame[th].pc = "idle"
    /\ errno'[th] = 0
    /\ ~fexcept'[th]

\* C13: the domain-error channel is per thread: in any interleaving of threads
\* calling sqrt, what a thread observes of errno and FE_INVALID changes only in
\* a step of its own call with negative input, or when it clears them itself;
\* so a thread that passed only non-negative values never sees them set.
C13_ChannelPerThread ==
    [][\A th \in Threads :
          IndicatorChanges(th) => (InDomainError(th) \/ ClearedBy(th))]_vars

\* One thread has returned -1 with both indicators set while the other has
\* returned from the loop of a call with non-negative input and sees none.
C13_Witness ==
    /\ frame["main"].pc = "returned"
    /\ frame["main"].val < 0
    /\ errno["main"] = EDOM
    /\ fexcept["main"]
    /\ frame["other"].pc = "returned"
    /\ frame["other"].val >= 4
    /\ frame["other"].iterations >= 1
    /\ errno["other"] = 0
    /\ ~fexcept["other"]

\* C14: mean, add_overflow, sub_overflow, mul_overflow and sqrt with
\* non-negative input leave errno and FE_INVALID unchanged: errno changes only
\* to EDOM at errno = EDOM of a call with negative input, FE_INVALID only at
\* the feraiseexcept of such a call, and both are reset only by the caller's
\* clearing; so the indicator is set exactly when a call with negative input
\* occurred since the last clearing.
C14_OnlyNegativeSqrtSets ==
    [][/\ IndicatorChanges("main") =>
             \/ /\ Main.pc = "errno"
                /\ Main.val < 0
                /\ errno'["main"] = EDOM
                /\ UNCHANGED fexcept
             \/ /\ Main.pc = "raise"
                /\ Main.val < 0
                /\ fexcept'["main"]
                /\ UNCHANGED errno
             \/ /\ pc = "idle"
                /\ ClearedBy("main")
       /\ (Main.pc = "raise" /\ Main.val < 0) => errno["main"] = EDOM
       /\ (Main.pc = "returned" /\ Main.val < 0) =>
             (errno["main"] = EDOM /\ fexcept["main"])]_vars

\* A sqrt with non-negative input has returned from its loop with the
\* indicators of an earlier domain error still set.
C14_Witness ==
    /\ Main.pc = "returned"
    /\ Main.val >= 4
    /\ Main.iterations >= 1
    /\ Main.ret >= 2
    /\ errno["main"] = EDOM
    /\ fexcept["main"]

\* C15: sqrt terminates for every type and every val: an iteration that
\* starts with right - left >= 2 puts middle strictly between left and right,
\* an iteration that does not return leaves a strictly narrower interval, and
\* no call runs the loop body more than bitwidth / 2 times.
C15_LoopIsBounded ==
    [][Main.pc = "loop" =>
          LET next == frame'["main"]
          IN  /\ next.iterations = Main.iterations + 1
              /\ next.iterations <= T.bits \div 2
              /\ (Main.right - Main.left >= 2) =>
                    (Main.left < next.middle /\ next.middle < Main.right)
              /\ next.pc = "loop" =>
                    /\ next.right - next.left < Main.right - Main.left
                    /\ next.right - next.left >= 2
              /\ next.pc \in {"loop", "returned"}]_vars

\* A call has returned after running the loop body bitwidth / 2 times.
C15_Witness ==
    /\ Main.pc = "returned"
    /\ Main.val >= 4
    /\ Main.iterations = T.bits \div 2

----------------------------------------------------------------------------
(* Ranges of the intermediate values: C16 to C18 *)

\* C16: every intermediate value of mean, a / 2 + b / 2 and
\* a / 2 + b / 2 + (a & b & 1), lies within [min(T), max(T)] for every a and
\* b of T, a = b = max(T) and a = b = min(T) included.
C16_MeanNeverOverflows ==
    Returned("mean") =>
        /\ InRange(T, CDiv(a, 2))
        /\ InRange(T, CDiv(b, 2))
        /\ InRange(T, mean_halves(a, b))
        /\ InRange(T, mean_halves(a, b) + mean_odd(T, a, b))

\* mean(max, max) of the signed type of int's width has returned, its last
\* intermediate value being max itself.
C16_Witness ==
    /\ Returned("mean")
    /\ T = IntT
    /\ a = TMax(T)
    /\ b = TMax(T)
    /\ mean_halves(a, b) + mean_odd(T, a, b) = TMax(T)

\* C17: in sqrt, for val >= 4, every iteration of the loop has
\* 2 <= left <= middle <= right <= min(val / 2, max_right), and val / 2,
\* left + right and right - left (before and after the narrowing) are within
\* the range of T; only the checked middle * middle may leave it.
C17_LoopStaysInRange ==
    [][Main.pc = "loop" =>
          LET next == frame'["main"]
          IN  /\ Main.val >= 4
              /\ 2 <= Main.left
              /\ Main.left <= next.middle
              /\ next.middle <= Main.right
              /\ \A m \in max_right(T) :
                    Main.right <= Min2(CDiv(Main.val, 2), m)
              /\ InRange(T, CDiv(Main.val, 2))
              /\ InRange(T, Main.left + Main.right)
              /\ InRange(T, Main.right - Main.left)
              /\ next.left <= next.right
              /\ InRange(T, next.right - next.left)]_vars

\* An iteration of a signed type found middle * middle out of range, moved
\* right down to middle and goes on.
C17_Witness ==
    /\ Main.pc = "loop"
    /\ T.signed
    /\ Main.iterations >= 1
    /\ Main.square.second
    /\ Main.right = Main.middle
    /\ Main.middle * Main.middle > TMax(T)

\* C18: for every type max_right = (max >> (digits / 2)) + 1 is representable
\* in T and max_right * max_right > max(T), so that a right bound capped at
\* max_right still has its square above val.
C18_MaxRightAboveRoot ==
    \A m \in max_right(T) :
        /\ InRange(T, ShiftRight(TMax(T), Digits(T) \div 2) + 1)
        /\ m = ShiftRight(TMax(T), Digits(T) \div 2) + 1
        /\ m * m > TMax(T)
        /\ (Main.pc = "loop" /\ Main.iterations = 0 /\ Main.right = m) =>
              Main.right * Main.right > Main.val

\* sqrt(max(T)) enters its loop with right capped at max_right, below val / 2.
C18_Witness ==
    /\ Main.pc = "loop"
    /\ Main.iterations = 0
    /\ Main.val = TMax(T)
    /\ Main.right \in max_right(T)
    /\ Main.right < CDiv(Main.val, 2)

----------------------------------------------------------------------------
(* C19 and C20 *)

\* C19: mean is idempotent: mean(a, a) = a for every a of every type.
C19_MeanIdempotent ==
    (Returned("mean") /\ a = b) => result = a

\* C20: at the top of every iteration of sqrt's loop left * left <= val and,
\* for val >= 6, right * right > val, as exact integers; so the floor root is
\* in [left, right) and the left returned once right - left < 2 is the floor
\* root.
C20_LoopInvariant ==
    /\ Main.pc = "loop" =>
          /\ Main.left * Main.left <= Main.val
          /\ Main.val >= 6 => Main.right * Main.right > Main.val
    /\ (Main.pc = "returned" /\ Main.iterations >= 1 /\ Main.val >= 6) =>
          /\ Main.ret * Main.ret <= Main.val
          /\ Main.val < (Main.ret + 1) * (Main.ret + 1)
          /\ Main.ret = Main.left \/ Main.ret = Main.middle

\* The loop is at the top of a later iteration, both bounds moved.
C20_Witness ==
    /\ Main.pc = "loop"
    /\ Main.iterations >= 2
    /\ Main.val >= 6
    /\ Main.left > 2
    /\ Main.right < CDiv(Main.val, 2)
    /\ \A m \in max_right(T) : Main.right < m

----------------------------------------------------------------------------
(* No undefined operation in the overflow tests: C21 to C23 *)

\* C21: the manual path of mul_overflow never evaluates an undefined
\* division, for any a and b of any type: no divisor is zero, min(T) is never
\* divided by -1, every quotient is representable, and no division at all is
\* evaluated with a zero operand or, for a signed type, with an operand of -1.
\* The flag returned is the one the comparison with that quotient gives.
C21_NoUndefinedDivision ==
    (Returned("mul_overflow") /\ Manual) =>
        /\ \A d \in mul_overflow_division(T, a, b) :
              /\ d.den # 0
              /\ ~(d.num = TMin(T) /\ d.den = -1)
              /\ InRange(Promote(T), CDiv(d.num, d.den))
              /\ mul_overflow_check(T, a, b) = mul_overflow_compare(Promote(T), d)
              /\ mul_overflow_compare(Promote(T), d) = {overflow}
        /\ (a = 0 \/ b = 0) => mul_overflow_division(T, a, b) = {}
        /\ (T.signed /\ (a = -1 \/ b = -1)) => mul_overflow_division(T, a, b) = {}

\* The manual mul_overflow of int's width has returned from min * (-1)
\* without a division, and from no other call with an operand of min.
C21_Witness ==
    /\ Returned("mul_overflow")
    /\ Manual
    /\ T = IntT
    /\ a = TMin(T)
    /\ b = -1
    /\ mul_overflow_division(T, a, b) = {}
    /\ mul_overflow_division(T, a, 2) # {}

\* The limits the overflow test of the returned call evaluated.
Prediction ==
    IF fn = "add_overflow" THEN add_overflow_prediction(T, a, b)
    ELSE sub_overflow_prediction(T, a, b)

\* The flags the overflow test of the returned call can give.
PredictedCheck ==
    IF fn = "add_overflow" THEN add_overflow_check(T, a, b)
    ELSE sub_overflow_check(T, a, b)

\* C22: in the manual paths of add_overflow and sub_overflow the limits
\* max - b, min - b, max + b and min + b are evaluated only where their exact
\* value is within [min(T), max(T)], for every a and b of every type: the
\* prediction never overflows, and the flag returned is the one the
\* comparison with that limit gives.
C22_PredictionNeverOverflows ==
    (pc = "returned" /\ fn \in {"add_overflow", "sub_overflow"} /\ Manual) =>
        \A p \in Prediction :
            /\ InRange(T, p.value)
            /\ PredictedCheck = overflow_compare(Promote(T), p)
            /\ overflow_compare(Promote(T), p) = {overflow}

\* The manual add_overflow of int's width has returned from min + min, whose
\* limit min - b is 0, and reported the overflow.
C22_Witness ==
    /\ Returned("add_overflow")
    /\ Manual
    /\ T = IntT
    /\ a = TMin(T)
    /\ b = TMin(T)
    /\ overflow
    /\ \E p \in Prediction : p.value = 0 /\ p.less

\* C23: for an unsigned type the checked multiply middle * middle inside
\* sqrt's loop never reports overflow: middle stays below 2^(bitwidth / 2) and
\* the square returned is the exact one; a reported overflow is that of a
\* signed type.
C23_UnsignedSquareFits ==
    (Main.pc \in {"loop", "returned"} /\ Main.iterations >= 1) =>
        /\ ~T.signed =>
              /\ ~Main.square.second
              /\ Main.middle < Pow2(T.bits \div 2)
              /\ Main.square.first = Main.middle * Main.middle
        /\ Main.square.second => T.signed

\* sqrt(max(T)) of an unsigned type has squared the largest middle there is,
\* 2^(bitwidth / 2) - 1, without overflow.
C23_Witness ==
    /\ ~T.signed
    /\ Main.pc = "returned"
    /\ Main.val = TMax(T)
    /\ Main.iterations >= 1
    /\ Main.middle = Pow2(T.bits \div 2) - 1
    /\ Main.square = [first |-> Main.middle * Main.middle, second |-> FALSE]

====
